---- MODULE Spec2Model ----
(***************************************************************************)
(* Session and synchronization layer of the StellarIQ mobile client:       *)
(*   - TokenStorage (services/tokenStorage.ts): the stored tokens and user *)
(*   - ApiService.request (services/api.ts): the request pipeline with its *)
(*     401 -> refresh -> retry branch                                      *)
(*   - AuthProvider (contexts/AuthContext.tsx): the session state          *)
(*   - NotificationProvider (providers/NotificationProvider.tsx)           *)
(*   - WatchlistProvider (navigation/AppNavigator.tsx, lines 290-632)      *)
(*                                                                         *)
(* The program runs on one event loop: every await on the network is a     *)
(* suspension point and is a separate action here.  An AsyncStorage        *)
(* operation is taken together with the synchronous code that follows it,  *)
(* and AsyncStorage writes are assumed to succeed.                         *)
(***************************************************************************)
EXTENDS Naturals, Integers, Sequences, FiniteSets, TLC

\* Token values the backend may hand out are 1..MaxTok; 0 is '' / null.
MaxTok == 2
Tokens == 1..MaxTok
NoTok == 0

\* Outcomes of one fetch(): 2xx, 401, another non-2xx, or no response.
Responses == {"ok", "unauth", "err", "net"}

\* Symbols a screen may add to the watchlist.
Symbols == {"AAPL", "BTC"}

\* Push tokens the platform may hand out are 1..MaxPush; 0 is null.
MaxPush == 2
PushTokens == 1..MaxPush

\* Alert prices are whole dollars from -1 to MaxPrice.
MaxPrice == 1

\* Callers of registerWithAPI that may be in flight together.
RegSlots == {"r1", "r2"}

\* Callers of the watchlist operations: two screens and initializeWatchlist.
WatchSlots == {"w1", "w2", "wi"}

\* Call sites of ApiService.request that the model runs.
UiSlots == {"a", "b"}
SessionSlots == {"init", "login", "register", "logout", "refresh"}
Slots == UiSlots \cup SessionSlots

None == "none"

VARIABLES
    store,      \* AsyncStorage[TOKEN_KEY]: [access, refresh], access = 0 when absent
    storeUser,  \* AsyncStorage[USER_KEY]: "none" when absent
    auth,       \* AuthState of AuthProvider: [user, tokens, isLoading, error]
    op,         \* position of each AuthProvider operation
    req,        \* per call site: the state of one ApiService.request call
    wl,         \* WatchlistState of WatchlistProvider: [items, isLoading, error]
    wop,        \* per caller: the state of one watchlist operation
    weff,       \* WatchlistProvider auth effect: [deps, timer]
    srv,        \* the backend's favorites of the user: symbol -> [fav, alert]
    notif,      \* NotificationProvider state: [expoPushToken, isPermissionGranted, isRegistered]
    nproc,      \* position of initializeNotifications and of requestPermission
    neff,       \* dependencies the registration effect last ran with
    reg,        \* per caller: the state of one registerWithAPI call
    regOk,      \* push tokens registered successfully since the session was last signed in
    regDone,    \* push tokens whose registration has succeeded at any time
    wa,         \* WatchlistState whose items carry their alert preferences
    summary,    \* what getAlertSummary last returned: [symbol, result, calls]
    loaded,     \* what TokenStorage.getTokens last returned: [io, result]
    thrown      \* per caller: the last failed fetch and the message request() threw

sessionVars == <<store, storeUser, auth, op, req>>
watchVars == <<wl, wop, weff, srv>>
notifVars == <<notif, nproc, neff, reg, regOk, regDone>>
probeVars == <<wa, summary, loaded, thrown>>
nonSessionVars == <<wl, wop, weff, srv, notif, nproc, neff, reg, regOk, regDone,
                    wa, summary, loaded, thrown>>
vars == <<store, storeUser, auth, op, req, wl, wop, weff, srv, notif, nproc, neff, reg,
          regOk, regDone, wa, summary, loaded, thrown>>

NoSession == [access |-> NoTok, refresh |-> NoTok]

\* AuthContext.tsx initialState
initialState == [user |-> None, tokens |-> NoSession, isLoading |-> TRUE, error |-> None]

\* TokenStorage.getAccessToken: tokens?.access_token || null
getAccessToken == store.access

\* TokenStorage.getRefreshToken: tokens?.refresh_token || null
getRefreshToken == IF store.access = NoTok THEN NoTok ELSE store.refresh

\* TokenStorage.getTokens() is non-null
HasSession == store.access # NoTok

\* state.isAuthenticated, always written together with user (SET_USER, LOGOUT)
isAuthenticated == auth.user # None

(***************************************************************************)
(* authReducer                                                             *)
(***************************************************************************)
SET_LOADING(st, b) == [st EXCEPT !.isLoading = b]
SET_USER(st, u) == [st EXCEPT !.user = u]
SET_TOKENS(st, t) == [st EXCEPT !.tokens = t]
SET_ERROR(st, m) == [st EXCEPT !.error = m, !.isLoading = FALSE]
CLEAR_ERROR(st) == [st EXCEPT !.error = None]
LOGOUT(st) == [initialState EXCEPT !.isLoading = FALSE]

(***************************************************************************)
(* ApiService.request                                                      *)
(***************************************************************************)
IdleReq == [pc |-> "idle", auth |-> FALSE, hdr |-> NoTok, rt |-> NoTok,
            newAcc |-> NoTok, newRef |-> NoTok, nRefresh |-> 0, nRetry |-> 0,
            hist |-> <<>>, result |-> None]

\* request(): read the access token when requireAuth, then fetch(url, config)
SentReqWith(requireAuth, accessToken) ==
    [IdleReq EXCEPT !.pc = "sent", !.auth = requireAuth,
                    !.hdr = IF requireAuth THEN accessToken ELSE NoTok]

SentReq(requireAuth) == SentReqWith(requireAuth, getAccessToken)

\* the error thrown for a final response that is not 2xx, by the kind of the
\* response; RequestError below gives the message it carries
ErrorOf(r) == IF r = "net" THEN "Network" ELSE "Backend"

\* a screen issues an authenticated call; screens are mounted only once the
\* navigator has left its loading view
ReqStart(s) ==
    /\ s \in UiSlots
    /\ req[s].pc = "idle"
    /\ ~auth.isLoading
    /\ req' = [req EXCEPT ![s] = SentReq(TRUE)]
    /\ UNCHANGED <<store, storeUser, auth, op, nonSessionVars>>

\* what request() does with the response of the first fetch
AfterFirst(q, r) ==
    IF r = "unauth" /\ q.auth THEN [q EXCEPT !.pc = "readRefresh"]
    ELSE IF r # "ok" THEN [q EXCEPT !.pc = "done", !.result = ErrorOf(r)]
    ELSE [q EXCEPT !.pc = "done", !.result = "value"]

\* await fetch(url, config) resolves or rejects
ReqResponse(s) ==
    /\ req[s].pc = "sent"
    /\ \E r \in Responses :
         req' = [req EXCEPT ![s] = AfterFirst([req[s] EXCEPT !.hist = Append(@, r)], r)]
    /\ UNCHANGED <<store, storeUser, auth, op, nonSessionVars>>

\* after a 401: the refresh token is read and, when present, the refresh is sent
AfterReadRefresh(q, rt) ==
    IF rt # NoTok
    THEN [q EXCEPT !.pc = "refreshing", !.rt = rt, !.nRefresh = @ + 1]
    ELSE [q EXCEPT !.pc = "clearing"]

ReqReadRefresh(s) ==
    /\ req[s].pc = "readRefresh"
    /\ req' = [req EXCEPT ![s] = AfterReadRefresh(req[s], getRefreshToken)]
    /\ UNCHANGED <<store, storeUser, auth, op, nonSessionVars>>

\* this.refreshToken(refreshToken) returns tokens or throws
AfterRefresh(q, r, acc, ref) ==
    IF r = "ok"
    THEN [q EXCEPT !.pc = "storing", !.newAcc = acc,
                   !.newRef = IF ref = NoTok THEN q.rt ELSE ref]
    ELSE [q EXCEPT !.pc = "clearing"]

ReqRefreshResponse(s) ==
    /\ req[s].pc = "refreshing"
    /\ \E r \in Responses, acc \in Tokens, ref \in {NoTok} \cup Tokens :
         /\ (r # "ok") => (acc = 1 /\ ref = NoTok)
         /\ req' = [req EXCEPT ![s] = AfterRefresh([req[s] EXCEPT !.hist = Append(@, r)], r, acc, ref)]
    /\ UNCHANGED <<store, storeUser, auth, op, nonSessionVars>>

\* (mutant) the re-issued request keeps the Authorization header of the first one
RetryHeader_stale(q) == q.hdr

\* the header of the re-issued request
RetryHeader(q) == q.newAcc

\* the re-issued fetch(url, { ...config, headers })
Retried(q) == [q EXCEPT !.pc = "retrying", !.hdr = RetryHeader(q), !.nRetry = @ + 1]

\* TokenStorage.storeTokens(new tokens), then the original request is re-issued
ReqStoreAndRetry(s) ==
    /\ req[s].pc = "storing"
    /\ store' = [access |-> req[s].newAcc, refresh |-> req[s].newRef]
    /\ req' = [req EXCEPT ![s] = Retried(req[s])]
    /\ UNCHANGED <<storeUser, auth, op, nonSessionVars>>

\* (mutant) the body of the re-issued response is returned without checking ok
AfterRetry_unchecked(q, r) ==
    IF r = "net" THEN [q EXCEPT !.pc = "clearing"]
    ELSE [q EXCEPT !.pc = "done", !.result = "value"]

\* what request() does with the outcome of the re-issued fetch
AfterRetry(q, r) ==
    IF r = "ok" THEN [q EXCEPT !.pc = "done", !.result = "value"]
    ELSE [q EXCEPT !.pc = "clearing"]

ReqRetryResponse(s) ==
    /\ req[s].pc = "retrying"
    /\ \E r \in Responses :
         req' = [req EXCEPT ![s] = AfterRetry([req[s] EXCEPT !.hist = Append(@, r)], r)]
    /\ UNCHANGED <<store, storeUser, auth, op, nonSessionVars>>

\* TokenStorage.clearAuth(); throw new Error('Authentication required')
ReqClearAuth(s) ==
    /\ req[s].pc = "clearing"
    /\ store' = NoSession
    /\ storeUser' = None
    /\ req' = [req EXCEPT ![s] = [@ EXCEPT !.pc = "done", !.result = "AuthRequired"]]
    /\ UNCHANGED <<auth, op, nonSessionVars>>

\* the UI caller has received the value or the error of its call
ReqReturn(s) ==
    /\ s \in UiSlots
    /\ req[s].pc = "done"
    /\ req' = [req EXCEPT ![s] = IdleReq]
    /\ UNCHANGED <<store, storeUser, auth, op, nonSessionVars>>

Request(s) ==
    \/ ReqResponse(s)
    \/ ReqReadRefresh(s)
    \/ ReqRefreshResponse(s)
    \/ ReqStoreAndRetry(s)
    \/ ReqRetryResponse(s)
    \/ ReqClearAuth(s)

(***************************************************************************)
(* The message of the Error request() throws for a fetch that failed       *)
(* (api.ts:198-221).  A message is the sequence of its words, so that      *)
(* message.includes(...) is a search for a run of words.                   *)
(***************************************************************************)
ConnectivityMessage ==
    <<"Cannot", "connect", "to", "server.", "Check", "if", "backend", "is", "running",
      "and", "network", "connection.">>

\* the message of the TypeError a fetch() without response rejects with
FetchRejection == <<"Network", "request", "failed">>

\* the `detail` of a backend error body; <<>> when the body has none
Details ==
    {<<>>, <<"Invalid", "credentials">>, <<"Ticker", "not", "found">>,
     <<"Failed", "to", "fetch", "quote">>}

Statuses == {"400", "404", "500"}

\* a fetch that failed: rejected, or answered with a status that is not 2xx
FetchOutcomes ==
    {[kind |-> "rejected", status |-> None, detail |-> <<>>]}
      \cup [kind : {"response"}, status : Statuses, detail : Details]

\* message.includes(part)
Includes(message, part) ==
    \E i \in 1..(Len(message) + 1 - Len(part)) :
       SubSeq(message, i, i + Len(part) - 1) = part

\* the Error thrown inside the try block: the rejection of fetch, or
\* new Error(errorData.detail || `HTTP ${response.status}`)
ThrownInTry(o) ==
    IF o.kind = "rejected" THEN FetchRejection
    ELSE IF o.detail # <<>> THEN o.detail ELSE <<"HTTP", o.status>>

\* the outer catch of request(): the message the caller receives
RequestError(o) ==
    IF \/ Includes(ThrownInTry(o), <<"Network", "request", "failed">>)
       \/ Includes(ThrownInTry(o), <<"fetch">>)
    THEN ConnectivityMessage
    ELSE ThrownInTry(o)

NoError == [outcome |-> [kind |-> None, status |-> None, detail |-> <<>>],
            message |-> <<>>]

\* a call of a screen ends with a fetch that failed, not a 401
RequestFails(s, o) ==
    /\ thrown' = [thrown EXCEPT ![s] = [outcome |-> o, message |-> RequestError(o)]]
    /\ UNCHANGED <<sessionVars, watchVars, notifVars, wa, summary, loaded>>

(***************************************************************************)
(* AuthProvider operations.  The navigator (AppNavigator.tsx:188-198)      *)
(* shows the auth screens only while not loading and not authenticated,    *)
(* and the main screens only while not loading and authenticated.          *)
(***************************************************************************)
\* err: the error refreshToken has caught and rethrows after its logout
IdleOp == [pc |-> "idle", tok |-> NoSession, err |-> None]

TokenPairs == [access : Tokens, refresh : {NoTok} \cup Tokens]

\* initializeAuth up to the verification call
InitRead ==
    /\ op["init"].pc = "start"
    /\ IF HasSession /\ storeUser # None
       THEN /\ auth' = SET_USER(SET_TOKENS(SET_LOADING(auth, TRUE), store), storeUser)
            /\ req' = [req EXCEPT !["init"] = SentReq(TRUE)]
            /\ op' = [op EXCEPT !["init"] = [IdleOp EXCEPT !.pc = "verify"]]
       ELSE /\ auth' = SET_LOADING(auth, FALSE)
            /\ req' = req
            /\ op' = [op EXCEPT !["init"] = [IdleOp EXCEPT !.pc = "done"]]
    /\ UNCHANGED <<store, storeUser, nonSessionVars>>

\* (mutant) an initializeAuth that signs out on a failed verification and
\* leaves the stored credentials in place
InitVerified_keeps ==
    /\ op["init"].pc = "verify"
    /\ req["init"].pc = "done"
    /\ IF req["init"].result = "value"
       THEN /\ auth' = SET_LOADING(SET_USER(auth, "user"), FALSE)
            /\ storeUser' = "user"
            /\ store' = store
       ELSE /\ auth' = SET_LOADING(LOGOUT(auth), FALSE)
            /\ storeUser' = storeUser
            /\ store' = store
    /\ req' = [req EXCEPT !["init"] = IdleReq]
    /\ op' = [op EXCEPT !["init"] = [IdleOp EXCEPT !.pc = "done"]]
    /\ UNCHANGED nonSessionVars

\* initializeAuth after apiService.getCurrentUser() has settled
InitVerified ==
    /\ op["init"].pc = "verify"
    /\ req["init"].pc = "done"
    /\ IF req["init"].result = "value"
       THEN /\ auth' = SET_LOADING(SET_USER(auth, "user"), FALSE)
            /\ storeUser' = "user"
            /\ store' = store
       ELSE /\ auth' = SET_LOADING(LOGOUT(auth), FALSE)
            /\ storeUser' = None
            /\ store' = NoSession
    /\ req' = [req EXCEPT !["init"] = IdleReq]
    /\ op' = [op EXCEPT !["init"] = [IdleOp EXCEPT !.pc = "done"]]
    /\ UNCHANGED nonSessionVars

\* login up to apiService.login
LoginStart ==
    /\ op["login"].pc = "idle"
    /\ ~auth.isLoading /\ ~isAuthenticated
    /\ auth' = CLEAR_ERROR(SET_LOADING(auth, TRUE))
    /\ req' = [req EXCEPT !["login"] = SentReq(FALSE)]
    /\ op' = [op EXCEPT !["login"] = [IdleOp EXCEPT !.pc = "call"]]
    /\ UNCHANGED <<store, storeUser, nonSessionVars>>

\* login after apiService.login has settled: store the tokens, fetch the user
LoginResponse ==
    /\ op["login"].pc = "call"
    /\ req["login"].pc = "done"
    /\ IF req["login"].result = "value"
       THEN \E t \in TokenPairs :
              /\ store' = t
              /\ req' = [req EXCEPT !["login"] = SentReqWith(TRUE, t.access)]
              /\ op' = [op EXCEPT !["login"] = [IdleOp EXCEPT !.pc = "me", !.tok = t]]
              /\ auth' = auth
       ELSE /\ auth' = SET_LOADING(SET_ERROR(auth, req["login"].result), FALSE)
            /\ req' = [req EXCEPT !["login"] = IdleReq]
            /\ op' = [op EXCEPT !["login"] = IdleOp]
            /\ store' = store
    /\ UNCHANGED <<storeUser, nonSessionVars>>

\* login after apiService.getCurrentUser has settled
LoginUser ==
    /\ op["login"].pc = "me"
    /\ req["login"].pc = "done"
    /\ IF req["login"].result = "value"
       THEN /\ storeUser' = "user"
            /\ auth' = SET_LOADING(SET_USER(SET_TOKENS(auth, op["login"].tok), "user"), FALSE)
       ELSE /\ storeUser' = storeUser
            /\ auth' = SET_LOADING(SET_ERROR(auth, req["login"].result), FALSE)
    /\ req' = [req EXCEPT !["login"] = IdleReq]
    /\ op' = [op EXCEPT !["login"] = IdleOp]
    /\ UNCHANGED <<store, nonSessionVars>>

\* register up to the /auth/register request of apiService.register
RegisterStart ==
    /\ op["register"].pc = "idle"
    /\ ~auth.isLoading /\ ~isAuthenticated
    /\ auth' = CLEAR_ERROR(SET_LOADING(auth, TRUE))
    /\ req' = [req EXCEPT !["register"] = SentReq(FALSE)]
    /\ op' = [op EXCEPT !["register"] = [IdleOp EXCEPT !.pc = "register"]]
    /\ UNCHANGED <<store, storeUser, nonSessionVars>>

\* what register does when one of its calls has failed: SET_ERROR, rethrow
RegisterFailed ==
    /\ auth' = SET_LOADING(SET_ERROR(auth, req["register"].result), FALSE)
    /\ req' = [req EXCEPT !["register"] = IdleReq]
    /\ op' = [op EXCEPT !["register"] = IdleOp]

\* (mutant) an apiService.register that sends the registration again when
\* its login has failed
RegisterLoggedIn_retry ==
    /\ op["register"].pc = "login"
    /\ req["register"].pc = "done"
    /\ IF req["register"].result = "value"
       THEN /\ storeUser' = "authResponse"
            /\ req' = [req EXCEPT !["register"] = SentReq(FALSE)]
            /\ op' = [op EXCEPT !["register"] = [IdleOp EXCEPT !.pc = "relogin"]]
            /\ auth' = auth
       ELSE /\ storeUser' = storeUser
            /\ req' = [req EXCEPT !["register"] = SentReq(FALSE)]
            /\ op' = [op EXCEPT !["register"] = [IdleOp EXCEPT !.pc = "register"]]
            /\ auth' = auth
    /\ UNCHANGED <<store, nonSessionVars>>

\* apiService.register after /auth/register has settled: this.login(...)
RegisterResponse ==
    /\ op["register"].pc = "register"
    /\ req["register"].pc = "done"
    /\ IF req["register"].result = "value"
       THEN /\ req' = [req EXCEPT !["register"] = SentReq(FALSE)]
            /\ op' = [op EXCEPT !["register"] = [IdleOp EXCEPT !.pc = "login"]]
            /\ auth' = auth
       ELSE RegisterFailed
    /\ UNCHANGED <<store, storeUser, nonSessionVars>>

\* apiService.register has returned the AuthResponse of its login:
\* storeUser(response), then the login of register itself
RegisterLoggedIn ==
    /\ op["register"].pc = "login"
    /\ req["register"].pc = "done"
    /\ IF req["register"].result = "value"
       THEN /\ storeUser' = "authResponse"
            /\ req' = [req EXCEPT !["register"] = SentReq(FALSE)]
            /\ op' = [op EXCEPT !["register"] = [IdleOp EXCEPT !.pc = "relogin"]]
            /\ auth' = auth
       ELSE /\ storeUser' = storeUser
            /\ RegisterFailed
    /\ UNCHANGED <<store, nonSessionVars>>

\* register after its own apiService.login has settled: storeTokens and
\* SET_TOKENS; response.user is undefined, so SET_USER is not dispatched
RegisterFinish ==
    /\ op["register"].pc = "relogin"
    /\ req["register"].pc = "done"
    /\ IF req["register"].result = "value"
       THEN \E t \in TokenPairs :
              /\ store' = t
              /\ auth' = SET_LOADING(SET_TOKENS(auth, t), FALSE)
              /\ req' = [req EXCEPT !["register"] = IdleReq]
              /\ op' = [op EXCEPT !["register"] = IdleOp]
       ELSE /\ store' = store
            /\ RegisterFailed
    /\ UNCHANGED <<storeUser, nonSessionVars>>

\* logout up to apiService.logout
LogoutStart ==
    /\ op["logout"].pc = "idle"
    /\ ~auth.isLoading /\ isAuthenticated
    /\ req' = [req EXCEPT !["logout"] = SentReq(TRUE)]
    /\ op' = [op EXCEPT !["logout"] = [IdleOp EXCEPT !.pc = "call"]]
    /\ UNCHANGED <<store, storeUser, auth, nonSessionVars>>

\* (mutant) a clearAuth that removes the tokens and leaves the cached user
LogoutFinish_keepsUser ==
    /\ op["logout"].pc = "call"
    /\ req["logout"].pc = "done"
    /\ store' = NoSession
    /\ auth' = LOGOUT(auth)
    /\ req' = [req EXCEPT !["logout"] = IdleReq]
    /\ op' = [op EXCEPT !["logout"] = IdleOp]
    /\ UNCHANGED <<storeUser, nonSessionVars>>

\* logout after the backend call settled either way: clearAuth, LOGOUT
LogoutFinish ==
    /\ op["logout"].pc = "call"
    /\ req["logout"].pc = "done"
    /\ store' = NoSession
    /\ storeUser' = None
    /\ auth' = LOGOUT(auth)
    /\ req' = [req EXCEPT !["logout"] = IdleReq]
    /\ op' = [op EXCEPT !["logout"] = IdleOp]
    /\ UNCHANGED nonSessionVars

\* (mutant) a refreshToken that sends the refresh call without a refresh token
RefreshStart_always ==
    /\ op["refresh"].pc = "idle"
    /\ req' = [req EXCEPT !["refresh"] = [SentReq(FALSE) EXCEPT !.rt = getRefreshToken]]
    /\ op' = [op EXCEPT !["refresh"] = [IdleOp EXCEPT !.pc = "call"]]
    /\ UNCHANGED <<store, storeUser, auth, nonSessionVars>>

\* refreshToken of the context up to its first network call: the refresh
\* call, or without a refresh token the apiService.logout of logout()
RefreshStart ==
    /\ op["refresh"].pc = "idle"
    /\ IF getRefreshToken # NoTok
       THEN /\ req' = [req EXCEPT !["refresh"] = [SentReq(FALSE) EXCEPT !.rt = getRefreshToken]]
            /\ op' = [op EXCEPT !["refresh"] = [IdleOp EXCEPT !.pc = "call"]]
       ELSE /\ req' = [req EXCEPT !["refresh"] = SentReq(TRUE)]
            /\ op' = [op EXCEPT !["refresh"] =
                        [IdleOp EXCEPT !.pc = "logout", !.err = "No refresh token available"]]
    /\ UNCHANGED <<store, storeUser, auth, nonSessionVars>>

\* refreshToken after apiService.refreshToken has settled
RefreshResponse ==
    /\ op["refresh"].pc = "call"
    /\ req["refresh"].pc = "done"
    /\ IF req["refresh"].result = "value"
       THEN \E acc \in Tokens, ref \in {NoTok} \cup Tokens :
              LET t == [access |-> acc,
                        refresh |-> IF ref = NoTok THEN req["refresh"].rt ELSE ref]
              IN /\ store' = t
                 /\ auth' = SET_TOKENS(auth, t)
                 /\ req' = [req EXCEPT !["refresh"] = IdleReq]
                 /\ op' = [op EXCEPT !["refresh"] = IdleOp]
       ELSE /\ req' = [req EXCEPT !["refresh"] = SentReq(TRUE)]
            /\ op' = [op EXCEPT !["refresh"] =
                        [IdleOp EXCEPT !.pc = "logout", !.err = req["refresh"].result]]
            /\ UNCHANGED <<store, auth>>
    /\ UNCHANGED <<storeUser, nonSessionVars>>

\* refreshToken's catch: logout() has run to its end, then `throw error`
RefreshLogoutFinish ==
    /\ op["refresh"].pc = "logout"
    /\ req["refresh"].pc = "done"
    /\ store' = NoSession
    /\ storeUser' = None
    /\ auth' = LOGOUT(auth)
    /\ req' = [req EXCEPT !["refresh"] = IdleReq]
    /\ op' = [op EXCEPT !["refresh"] = [@ EXCEPT !.pc = "threw"]]
    /\ UNCHANGED nonSessionVars

\* the caller of refreshToken has received the rethrown error
RefreshThrown ==
    /\ op["refresh"].pc = "threw"
    /\ op' = [op EXCEPT !["refresh"] = IdleOp]
    /\ UNCHANGED <<store, storeUser, auth, req, nonSessionVars>>

Session ==
    \/ InitRead \/ InitVerified
    \/ LoginStart \/ LoginResponse \/ LoginUser
    \/ LogoutStart \/ LogoutFinish
    \/ RefreshStart \/ RefreshResponse \/ RefreshLogoutFinish \/ RefreshThrown

(***************************************************************************)
(* WatchlistProvider (AppNavigator.tsx:290-632)                            *)
(***************************************************************************)
\* the backend's id of a favorite
ServerId(sym) == IF sym = "AAPL" THEN 1 ELSE 2

\* a WatchlistItem as api.ts builds it from a favorite
Item(sym, alert) == [symbol |-> sym, id |-> ServerId(sym), alert_enabled |-> alert]

watchlistInitialState == [items |-> <<>>, isLoading |-> FALSE, error |-> None]

\* watchlistReducer
W_SET_LOADING(st, b) == [st EXCEPT !.isLoading = b]
W_SET_ITEMS(st, its) == [st EXCEPT !.items = its, !.isLoading = FALSE]
W_ADD_ITEM(st, it) == [st EXCEPT !.items = Append(@, it), !.isLoading = FALSE]
W_REMOVE_ITEM(st, sym) ==
    [st EXCEPT !.items = SelectSeq(@, LAMBDA it : it.symbol # sym), !.isLoading = FALSE]
W_UPDATE_ITEM(st, upd) ==
    [st EXCEPT !.items = [i \in DOMAIN @ |-> IF @[i].symbol = upd.symbol THEN upd ELSE @[i]],
               !.isLoading = FALSE]
W_SET_ERROR(st, m) == [st EXCEPT !.error = m, !.isLoading = FALSE]
W_CLEAR_ERROR(st) == [st EXCEPT !.error = None]

\* isInWatchlist: state.items.some(item => item.symbol === symbol)
isInWatchlist(sym) == \E i \in DOMAIN wl.items : wl.items[i].symbol = sym

IdleWop == [pc |-> "idle", kind |-> None, sym |-> None, alert |-> FALSE,
            reply |-> None, items |-> <<>>]

\* the favorites of the backend as apiService.getWatchlist returns them:
\* alert_enabled is always false in the mapped items
RECURSIVE FavoritesOf(_, _)
FavoritesOf(syms, favs) ==
    IF syms = {} THEN <<>>
    ELSE LET sym == CHOOSE x \in syms : \A y \in syms : ServerId(x) <= ServerId(y)
         IN (IF favs[sym].fav THEN <<Item(sym, FALSE)>> ELSE <<>>)
            \o FavoritesOf(syms \ {sym}, favs)

\* What one awaited ApiService.request of a watchlist call does to the token
\* store, by the result it ends with (api.ts:126-222): the 'Authentication
\* required' error comes after clearAuth; a value that comes from the retry
\* after a refresh replaces the stored tokens by other tokens, and as the
\* watchlist only reads whether a token is stored the stored value is kept.
StoreAfter(result) == IF result = "AuthRequired" THEN NoSession ELSE store

UserAfter(result) == IF result = "AuthRequired" THEN None ELSE storeUser

\* the message of the Error a failed request() throws
MessageOf(result) ==
    IF result = "AuthRequired" THEN "Authentication required" ELSE result

\* (mutant) addToWatchlist without the isInWatchlist check
AddPrecheck_nodup(sym) ==
    IF ~isAuthenticated
    THEN [exit |-> TRUE, out |-> "returned",
          wl |-> W_SET_LOADING(W_SET_ERROR(wl, "Authentication required"), FALSE)]
    ELSE IF getAccessToken = NoTok
    THEN [exit |-> TRUE, out |-> "returned",
          wl |-> W_SET_LOADING(W_SET_ERROR(wl, "Authentication token not available"), FALSE)]
    ELSE [exit |-> FALSE, out |-> None, wl |-> W_CLEAR_ERROR(W_SET_LOADING(wl, TRUE))]

\* addToWatchlist before its network call: the checks that end the call
\* early, with the error they record and whether the call returns or throws.
\* The closure's state.items and isAuthenticated are those of the render the
\* call was made from.
AddPrecheck(sym) ==
    IF ~isAuthenticated
    THEN [exit |-> TRUE, out |-> "returned",
          wl |-> W_SET_LOADING(W_SET_ERROR(wl, "Authentication required"), FALSE)]
    ELSE IF getAccessToken = NoTok
    THEN [exit |-> TRUE, out |-> "returned",
          wl |-> W_SET_LOADING(W_SET_ERROR(wl, "Authentication token not available"), FALSE)]
    ELSE IF isInWatchlist(sym)
    THEN [exit |-> TRUE, out |-> "returned",
          wl |-> W_SET_LOADING(W_SET_ERROR(W_CLEAR_ERROR(W_SET_LOADING(wl, TRUE)),
                                           "Item already in watchlist"), FALSE)]
    ELSE [exit |-> FALSE, out |-> None, wl |-> W_CLEAR_ERROR(W_SET_LOADING(wl, TRUE))]

\* (mutant) an addToWatchlist without the authentication and token checks
AddStart_unguarded(w, sym) ==
    /\ w \in {"w1", "w2"}
    /\ wop[w].pc = "idle"
    /\ ~auth.isLoading
    /\ wl' = IF isInWatchlist(sym) THEN AddPrecheck(sym).wl
             ELSE W_CLEAR_ERROR(W_SET_LOADING(wl, TRUE))
    /\ wop' = IF isInWatchlist(sym) THEN wop
              ELSE [wop EXCEPT ![w] = [IdleWop EXCEPT !.kind = "add", !.sym = sym, !.pc = "sent"]]
    /\ UNCHANGED <<sessionVars, weff, srv, notifVars, probeVars>>

\* addToWatchlist up to apiService.addToWatchlist
AddStart(w, sym) ==
    /\ w \in {"w1", "w2"}
    /\ wop[w].pc = "idle"
    /\ ~auth.isLoading
    /\ wl' = AddPrecheck(sym).wl
    /\ wop' = IF AddPrecheck(sym).exit THEN wop
              ELSE [wop EXCEPT ![w] = [IdleWop EXCEPT !.kind = "add", !.sym = sym, !.pc = "sent"]]
    /\ UNCHANGED <<sessionVars, weff, srv, notifVars, probeVars>>

\* refreshWatchlist up to apiService.getWatchlist
LoadStart(w) ==
    /\ w \in {"w1", "w2"}
    /\ wop[w].pc = "idle"
    /\ ~auth.isLoading
    /\ isAuthenticated /\ getAccessToken # NoTok
    /\ wop' = [wop EXCEPT ![w] = [IdleWop EXCEPT !.kind = "load", !.pc = "sent"]]
    /\ UNCHANGED <<sessionVars, wl, weff, srv, notifVars, probeVars>>

\* (mutant) a handleSave that writes the preferences to the cache before the call
UpdateStart_optimistic(w, i, alert) ==
    /\ w \in {"w1", "w2"}
    /\ wop[w].pc = "idle"
    /\ ~auth.isLoading /\ isAuthenticated
    /\ i \in DOMAIN wl.items
    /\ wl' = W_UPDATE_ITEM(wl, Item(wl.items[i].symbol, alert))
    /\ wop' = [wop EXCEPT ![w] = [IdleWop EXCEPT !.kind = "update", !.pc = "sent",
                                                 !.sym = wl.items[i].symbol, !.alert = alert]]
    /\ UNCHANGED <<sessionVars, weff, srv, notifVars, probeVars>>

\* NotificationSettings.handleSave up to apiService.updateNotificationPreferences,
\* opened from TickerDetailScreen for an item of the watchlist
UpdateStart(w, i, alert) ==
    /\ w \in {"w1", "w2"}
    /\ wop[w].pc = "idle"
    /\ ~auth.isLoading /\ isAuthenticated
    /\ i \in DOMAIN wl.items
    /\ wop' = [wop EXCEPT ![w] = [IdleWop EXCEPT !.kind = "update", !.pc = "sent",
                                                 !.sym = wl.items[i].symbol, !.alert = alert]]
    /\ UNCHANGED <<sessionVars, wl, weff, srv, notifVars, probeVars>>

\* the backend handles the request of a watchlist call and request() settles
WatchServe(w) ==
    /\ wop[w].pc = "sent"
    /\ \E result \in {"value", "Backend", "Network", "AuthRequired"} :
         /\ store' = StoreAfter(result)
         /\ storeUser' = UserAfter(result)
         /\ LET q == wop[w] IN
            IF result # "value"
            THEN /\ wop' = [wop EXCEPT ![w] = [q EXCEPT !.pc = "replied", !.reply = result]]
                 /\ srv' = srv
            ELSE CASE q.kind = "add" ->
                        /\ ~srv[q.sym].fav
                        /\ srv' = [srv EXCEPT ![q.sym] = [fav |-> TRUE, alert |-> FALSE]]
                        /\ wop' = [wop EXCEPT ![w] = [q EXCEPT !.pc = "replied", !.reply = result,
                                                               !.items = <<Item(q.sym, FALSE)>>]]
                   [] q.kind \in {"load", "init"} ->
                        /\ srv' = srv
                        /\ wop' = [wop EXCEPT ![w] = [q EXCEPT !.pc = "replied", !.reply = result,
                                                               !.items = FavoritesOf(Symbols, srv)]]
                   [] q.kind = "update" ->
                        /\ srv[q.sym].fav
                        /\ srv' = [srv EXCEPT ![q.sym].alert = q.alert]
                        /\ wop' = [wop EXCEPT ![w] = [q EXCEPT !.pc = "replied", !.reply = result,
                                                               !.items = <<Item(q.sym, q.alert)>>]]
    /\ UNCHANGED <<auth, op, req, wl, weff, notifVars, probeVars>>

\* (mutant) an addToWatchlist that caches the item it asked for, which has no
\* id, in place of the one the backend returned
WatchFinish_fromRequest(w) ==
    /\ wop[w].pc = "replied"
    /\ LET q == wop[w]
           ok == q.reply = "value"
       IN /\ wl' = CASE q.kind = "add" ->
                        IF ok THEN W_SET_LOADING(W_ADD_ITEM(wl, [symbol |-> q.sym, id |-> 0, alert_enabled |-> FALSE]), FALSE)
                        ELSE W_SET_LOADING(W_SET_ERROR(wl, MessageOf(q.reply)), FALSE)
                     [] q.kind = "load" ->
                        IF ok THEN W_SET_ITEMS(wl, q.items)
                        ELSE W_SET_ERROR(wl, "Failed to load watchlist")
                     [] q.kind = "init" ->
                        W_SET_LOADING(IF ok THEN W_SET_ITEMS(wl, q.items)
                                      ELSE W_SET_ERROR(wl, "Failed to load watchlist"), FALSE)
                     [] q.kind = "update" ->
                        IF ok THEN W_UPDATE_ITEM(wl, q.items[1]) ELSE wl
          /\ wop' = [wop EXCEPT ![w] = IdleWop]
    /\ UNCHANGED <<sessionVars, weff, srv, notifVars, probeVars>>

\* the rest of the operation once its awaited call has settled
WatchFinish(w) ==
    /\ wop[w].pc = "replied"
    /\ LET q == wop[w]
           ok == q.reply = "value"
       IN /\ wl' = CASE q.kind = "add" ->
                        IF ok THEN W_SET_LOADING(W_ADD_ITEM(wl, q.items[1]), FALSE)
                        ELSE W_SET_LOADING(W_SET_ERROR(wl, MessageOf(q.reply)), FALSE)
                     [] q.kind = "load" ->
                        IF ok THEN W_SET_ITEMS(wl, q.items)
                        ELSE W_SET_ERROR(wl, "Failed to load watchlist")
                     [] q.kind = "init" ->
                        W_SET_LOADING(IF ok THEN W_SET_ITEMS(wl, q.items)
                                      ELSE W_SET_ERROR(wl, "Failed to load watchlist"), FALSE)
                     [] q.kind = "update" ->
                        IF ok THEN W_UPDATE_ITEM(wl, q.items[1]) ELSE wl
          /\ wop' = [wop EXCEPT ![w] = IdleWop]
    /\ UNCHANGED <<sessionVars, weff, srv, notifVars, probeVars>>

\* (mutant) a removeFromWatchlist that takes the item out before the call
RemoveFromWatchlist_optimistic(sym) ==
    /\ ~auth.isLoading
    /\ wl' = IF ~isAuthenticated
             THEN W_SET_LOADING(W_SET_ERROR(wl, "Authentication required"), FALSE)
             ELSE IF getAccessToken = NoTok
             THEN W_SET_LOADING(W_SET_ERROR(wl, "Authentication token not available"), FALSE)
             ELSE IF ~isInWatchlist(sym)
             THEN W_SET_LOADING(W_SET_ERROR(wl, "Item not found in watchlist"), FALSE)
             ELSE W_SET_LOADING(W_SET_ERROR(W_REMOVE_ITEM(wl, sym),
                                            "Remove from watchlist requires symbol"), FALSE)
    /\ UNCHANGED <<sessionVars, wop, weff, srv, notifVars, probeVars>>

\* removeFromWatchlist: apiService.removeFromWatchlist(item.id) always throws
RemoveFromWatchlist(sym) ==
    /\ ~auth.isLoading
    /\ wl' = IF ~isAuthenticated
             THEN W_SET_LOADING(W_SET_ERROR(wl, "Authentication required"), FALSE)
             ELSE IF getAccessToken = NoTok
             THEN W_SET_LOADING(W_SET_ERROR(wl, "Authentication token not available"), FALSE)
             ELSE IF ~isInWatchlist(sym)
             THEN W_SET_LOADING(W_SET_ERROR(wl, "Item not found in watchlist"), FALSE)
             ELSE W_SET_LOADING(W_SET_ERROR(wl, "Remove from watchlist requires symbol"), FALSE)
    /\ UNCHANGED <<sessionVars, wop, weff, srv, notifVars, probeVars>>

\* the dependencies of the auth effect of WatchlistProvider
WatchDeps == <<isAuthenticated, auth.isLoading>>

WatchEffectPending == weff.deps # WatchDeps

\* useEffect(..., [isAuthenticated, authLoading]): cleanup, then the effect
WatchAuthEffect ==
    /\ WatchEffectPending
    /\ IF ~auth.isLoading /\ isAuthenticated
       THEN /\ weff' = [deps |-> WatchDeps, timer |-> TRUE]
            /\ wl' = wl
       ELSE IF ~auth.isLoading /\ ~isAuthenticated
       THEN /\ weff' = [deps |-> WatchDeps, timer |-> FALSE]
            /\ wl' = W_SET_LOADING(W_SET_ITEMS(wl, <<>>), FALSE)
       ELSE /\ weff' = [deps |-> WatchDeps, timer |-> FALSE]
            /\ wl' = wl
    /\ UNCHANGED <<sessionVars, wop, srv, notifVars, probeVars>>

\* (mutant) an initializeWatchlist that returns without a token before it
\* resets the loading flag
InitializeWatchlist_returns ==
    /\ weff.timer
    /\ wop["wi"].pc = "idle"
    /\ weff' = [weff EXCEPT !.timer = FALSE]
    /\ wl' = W_SET_LOADING(wl, TRUE)
    /\ wop' = IF getAccessToken = NoTok THEN wop
              ELSE [wop EXCEPT !["wi"] = [IdleWop EXCEPT !.kind = "init", !.pc = "sent"]]
    /\ UNCHANGED <<sessionVars, srv, notifVars, probeVars>>

\* the 100 ms timer fires: initializeWatchlist up to apiService.getWatchlist
InitializeWatchlist ==
    /\ weff.timer
    /\ wop["wi"].pc = "idle"
    /\ weff' = [weff EXCEPT !.timer = FALSE]
    /\ IF getAccessToken = NoTok
       THEN /\ wl' = W_SET_LOADING(W_SET_LOADING(wl, TRUE), FALSE)
            /\ wop' = wop
       ELSE /\ wl' = W_SET_LOADING(wl, TRUE)
            /\ wop' = [wop EXCEPT !["wi"] = [IdleWop EXCEPT !.kind = "init", !.pc = "sent"]]
    /\ UNCHANGED <<sessionVars, srv, notifVars, probeVars>>

Watchlist ==
    \/ \E w \in WatchSlots : WatchServe(w) \/ WatchFinish(w)
    \/ \E w \in {"w1", "w2"} : LoadStart(w)
    \/ \E w \in {"w1", "w2"}, sym \in Symbols : AddStart(w, sym)
    \/ \E sym \in Symbols : RemoveFromWatchlist(sym)
    \/ InitializeWatchlist

(***************************************************************************)
(* The alert status helpers of WatchlistProvider (AppNavigator.tsx:530-599)*)
(* JavaScript values: booleans are "true", "false" or "undefined", a price *)
(* is undefined, null or a number; a function that returns null or an      *)
(* object returns <<>> or a sequence of one record.                        *)
(***************************************************************************)
Tri == {"true", "false", "undefined"}

Undefined == [t |-> "undefined", v |-> 0]
Null == [t |-> "null", v |-> 0]
Num(n) == [t |-> "number", v |-> n]
Prices == {Undefined, Null} \cup {Num(n) : n \in -1..MaxPrice}

\* the items the backend may answer a save of preferences with
AlertItems ==
    [symbol : Symbols, alert_enabled : Tri, alert_on_overbought : Tri,
     alert_on_oversold : Tri, alert_on_neutral : Tri, price_alert_enabled : Tri,
     alert_price_above : Prices, alert_price_below : Prices]

\* a WatchlistItem as getWatchlist maps it from a favorite
FavoriteItem(sym) ==
    [symbol |-> sym, alert_enabled |-> "false", alert_on_overbought |-> "undefined",
     alert_on_oversold |-> "undefined", alert_on_neutral |-> "undefined",
     price_alert_enabled |-> "undefined",
     alert_price_above |-> Null, alert_price_below |-> Null]

\* JavaScript's truthiness, a || b, and p > 0
Truthy(b) == b = "true"
JsOr(a, b) == IF Truthy(a) THEN a ELSE b
TruthyPrice(p) == p.t = "number" /\ p.v # 0
GreaterThanZero(p) == p.t = "number" /\ p.v > 0
ToBool(c) == IF c THEN "true" ELSE "false"

\* price.toFixed(2) of a whole number of dollars: the dollars and two zeros
toFixed2(p) == <<p.v, 0, 0>>

\* state.items.find(item => item.symbol === symbol)
getWatchlistItem(items, sym) ==
    IF \E i \in DOMAIN items : items[i].symbol = sym
    THEN <<items[CHOOSE i \in DOMAIN items :
                   /\ items[i].symbol = sym
                   /\ \A j \in DOMAIN items : items[j].symbol = sym => i <= j]>>
    ELSE <<>>

\* item.alert_enabled && (overbought === true || oversold === true || neutral === true)
hasMarketAlertsEnabled(items, sym) ==
    LET found == getWatchlistItem(items, sym) IN
    IF found = <<>> THEN "false"
    ELSE LET item == found[1] IN
         IF ~Truthy(item.alert_enabled) THEN item.alert_enabled
         ELSE ToBool(\/ item.alert_on_overbought = "true"
                     \/ item.alert_on_oversold = "true"
                     \/ item.alert_on_neutral = "true")

\* (mutant) price alerts judged by the truthiness of the prices
hasPriceAlertsEnabled_truthy(items, sym) ==
    LET found == getWatchlistItem(items, sym) IN
    IF found = <<>> THEN "false"
    ELSE LET item == found[1] IN
         ToBool(/\ item.price_alert_enabled = "true"
                /\ \/ TruthyPrice(item.alert_price_above)
                   \/ TruthyPrice(item.alert_price_below))

\* item.price_alert_enabled === true &&
\*   ((above !== undefined && above > 0) || (below !== undefined && below > 0))
hasPriceAlertsEnabled(items, sym) ==
    LET found == getWatchlistItem(items, sym) IN
    IF found = <<>> THEN "false"
    ELSE LET item == found[1] IN
         ToBool(/\ item.price_alert_enabled = "true"
                /\ \/ (item.alert_price_above # Undefined
                         /\ GreaterThanZero(item.alert_price_above))
                   \/ (item.alert_price_below # Undefined
                         /\ GreaterThanZero(item.alert_price_below)))

hasAnyAlertsEnabled(items, sym) ==
    JsOr(hasMarketAlertsEnabled(items, sym), hasPriceAlertsEnabled(items, sym))

getAlertSummary(items, sym) ==
    LET found == getWatchlistItem(items, sym) IN
    IF found = <<>> THEN <<>>
    ELSE LET item == found[1]
             hasMarketAlerts == hasMarketAlertsEnabled(items, sym)
             hasPriceAlerts == hasPriceAlertsEnabled(items, sym)
         IN <<[hasMarketAlerts |-> hasMarketAlerts,
               hasPriceAlerts |-> hasPriceAlerts,
               hasAnyAlerts |-> JsOr(hasMarketAlerts, hasPriceAlerts),
               marketAlertTypes |->
                   IF Truthy(item.alert_enabled)
                   THEN (IF Truthy(item.alert_on_overbought) THEN <<"Overbought">> ELSE <<>>)
                        \o (IF Truthy(item.alert_on_oversold) THEN <<"Oversold">> ELSE <<>>)
                        \o (IF Truthy(item.alert_on_neutral) THEN <<"Neutral">> ELSE <<>>)
                   ELSE <<>>,
               priceAlertTypes |->
                   IF Truthy(item.price_alert_enabled)
                   THEN (IF TruthyPrice(item.alert_price_above)
                            /\ GreaterThanZero(item.alert_price_above)
                         THEN <<<<"Above $", toFixed2(item.alert_price_above)>>>> ELSE <<>>)
                        \o (IF TruthyPrice(item.alert_price_below)
                               /\ GreaterThanZero(item.alert_price_below)
                            THEN <<<<"Below $", toFixed2(item.alert_price_below)>>>> ELSE <<>>)
                   ELSE <<>>]>>

\* no getAlertSummary since the items last changed
NoSummary == [symbol |-> None, result |-> <<>>, calls |-> 0]

\* calls of getAlertSummary(sym) in a row, counted up to two
CallsAfter(sym) ==
    IF summary.symbol = sym /\ summary.calls >= 1 THEN 2 ELSE 1

\* (mutant) a getAlertSummary that answers from its previous result
GetAlertSummaryCall_memo(sym) ==
    /\ summary' = [symbol |-> sym,
                   result |-> IF summary.calls >= 1 THEN summary.result
                              ELSE getAlertSummary(wa.items, sym),
                   calls |-> CallsAfter(sym)]
    /\ UNCHANGED <<sessionVars, watchVars, notifVars, wa, loaded, thrown>>

\* a component renders and calls getAlertSummary(symbol)
GetAlertSummaryCall(sym) ==
    /\ summary' = [symbol |-> sym, result |-> getAlertSummary(wa.items, sym),
                   calls |-> CallsAfter(sym)]
    /\ UNCHANGED <<sessionVars, watchVars, notifVars, wa, loaded, thrown>>

\* the items a save in NotificationSettings is answered with here: market
\* alerts on overbought, or a price alert above MaxPrice dollars
SavedItems ==
    {[FavoriteItem(sym) EXCEPT !.alert_enabled = "true", !.alert_on_overbought = "true",
                               !.alert_on_oversold = "false", !.alert_on_neutral = "false"] :
        sym \in Symbols}
      \cup {[FavoriteItem(sym) EXCEPT !.price_alert_enabled = "true",
                                      !.alert_price_above = Num(MaxPrice)] :
               sym \in Symbols}

\* updateWatchlistItem(updatedItem) after a confirmed save
UpdateWatchlistItem(upd) ==
    /\ getWatchlistItem(wa.items, upd.symbol) # <<>>
    /\ wa' = W_UPDATE_ITEM(wa, upd)
    /\ summary' = NoSummary
    /\ UNCHANGED <<sessionVars, watchVars, notifVars, loaded, thrown>>

\* a load of the watchlist is confirmed: SET_ITEMS with the mapped favorites
SetWatchlistItems(syms) ==
    /\ wa' = W_SET_ITEMS(wa, [i \in 1..Len(syms) |-> FavoriteItem(syms[i])])
    /\ summary' = NoSummary
    /\ UNCHANGED <<sessionVars, watchVars, notifVars, loaded, thrown>>

(***************************************************************************)
(* TokenStorage.getTokens (services/tokenStorage.ts:35-46)                 *)
(***************************************************************************)
\* io: whether AsyncStorage.getItem resolves ("ok") or rejects ("ioerror");
\* the result is <<>> for null, else the stored tokens
getTokens(io) ==
    IF io = "ioerror" THEN <<>>
    ELSE IF store = NoSession THEN <<>> ELSE <<store>>

NotLoaded == [io |-> None, result |-> <<>>]

\* a caller awaits TokenStorage.getTokens()
GetTokens(io) ==
    /\ loaded' = [io |-> io, result |-> getTokens(io)]
    /\ UNCHANGED <<sessionVars, watchVars, notifVars, wa, summary, thrown>>

(***************************************************************************)
(* NotificationProvider (providers/NotificationProvider.tsx), on a         *)
(* physical device                                                         *)
(***************************************************************************)
\* cur: the call was sent in the session that is signed in now
IdleReg == [pc |-> "idle", token |-> NoTok, cur |-> FALSE]

\* callers that hold no registerWithAPI call in flight
FreeRegSlots == {r \in RegSlots : reg[r].pc = "idle"}

\* the caller the next registerWithAPI call is accounted to
NextRegSlot == IF reg["r1"].pc = "idle" THEN "r1" ELSE "r2"

\* the check at the head of registerWithAPI
CanRegister == notif.expoPushToken # NoTok /\ isAuthenticated

\* registerWithAPI up to apiService.registerDeviceToken
registerWithAPI(r) ==
    [reg EXCEPT ![r] = [pc |-> "sent", token |-> notif.expoPushToken, cur |-> TRUE]]

\* the calls in flight when the session ends belong to an earlier session
EndOfSession(calls) == [r \in RegSlots |-> [calls[r] EXCEPT !.cur = FALSE]]

\* (mutant) the registration effect without its isRegistered test
EffectRegisters_always == isAuthenticated /\ notif.expoPushToken # NoTok

\* the condition of the registration effect
EffectRegisters == isAuthenticated /\ notif.expoPushToken # NoTok /\ ~notif.isRegistered

\* the dependencies of the registration effect
NotifDeps == <<isAuthenticated, notif.expoPushToken, notif.isRegistered>>

NotifEffectPending == neff # NotifDeps

\* useEffect(..., [isAuthenticated, expoPushToken, isRegistered])
NotifEffect ==
    /\ NotifEffectPending
    /\ neff' = NotifDeps
    /\ regOk' = IF isAuthenticated THEN regOk ELSE {}
    /\ IF EffectRegisters /\ CanRegister
       THEN reg' = registerWithAPI(NextRegSlot)
       ELSE reg' = IF isAuthenticated THEN reg ELSE EndOfSession(reg)
    /\ UNCHANGED <<sessionVars, watchVars, notif, nproc, regDone, probeVars>>

\* the registerWithAPI of the context called by a screen
RegisterNow ==
    /\ CanRegister
    /\ reg' = registerWithAPI(NextRegSlot)
    /\ UNCHANGED <<sessionVars, watchVars, notif, nproc, neff, regOk, regDone, probeVars>>

\* (mutant) a registerWithAPI that sends the call again when it has failed
RegisterSettled_retry(r) ==
    /\ reg[r].pc = "sent"
    /\ \E result \in {"value", "Backend", "Network", "AuthRequired"} :
         /\ store' = StoreAfter(result)
         /\ storeUser' = UserAfter(result)
         /\ notif' = IF result = "value" THEN [notif EXCEPT !.isRegistered = TRUE] ELSE notif
         /\ regOk' = IF result = "value" /\ reg[r].cur
                     THEN regOk \cup {reg[r].token} ELSE regOk
         /\ regDone' = IF result = "value" THEN regDone \cup {reg[r].token} ELSE regDone
         /\ reg' = IF result = "value" THEN [reg EXCEPT ![r] = IdleReg] ELSE reg
    /\ UNCHANGED <<auth, op, req, watchVars, nproc, neff, probeVars>>

\* apiService.registerDeviceToken settles: setIsRegistered(true) on success
RegisterSettled(r) ==
    /\ reg[r].pc = "sent"
    /\ \E result \in {"value", "Backend", "Network", "AuthRequired"} :
         /\ store' = StoreAfter(result)
         /\ storeUser' = UserAfter(result)
         /\ notif' = IF result = "value" THEN [notif EXCEPT !.isRegistered = TRUE] ELSE notif
         /\ regOk' = IF result = "value" /\ reg[r].cur
                     THEN regOk \cup {reg[r].token} ELSE regOk
         /\ regDone' = IF result = "value" THEN regDone \cup {reg[r].token} ELSE regDone
    /\ reg' = [reg EXCEPT ![r] = IdleReg]
    /\ UNCHANGED <<auth, op, req, watchVars, nproc, neff, probeVars>>

\* requestPermission of the context called by a screen
RequestPermissionStart ==
    /\ nproc["request"] = "idle"
    /\ nproc' = [nproc EXCEPT !["request"] = "permission"]
    /\ UNCHANGED <<sessionVars, watchVars, notif, neff, reg, regOk, regDone, probeVars>>

\* the platform answers getPermissionsAsync / requestPermissionsAsync
PermissionResult(p, granted) ==
    /\ nproc[p] \in {"start", "permission"}
    /\ notif' = [notif EXCEPT !.isPermissionGranted = granted]
    /\ nproc' = [nproc EXCEPT ![p] = IF granted THEN "token"
                                     ELSE IF p = "init" THEN "done" ELSE "idle"]
    /\ UNCHANGED <<sessionVars, watchVars, neff, reg, regOk, regDone, probeVars>>

\* setupPushToken: getExpoPushTokenAsync returns a token (t > 0) or throws
setupPushToken(p, t) ==
    /\ nproc[p] = "token"
    /\ notif' = IF t # NoTok THEN [notif EXCEPT !.expoPushToken = t] ELSE notif
    /\ nproc' = [nproc EXCEPT ![p] = IF p = "init" THEN "done" ELSE "idle"]
    /\ UNCHANGED <<sessionVars, watchVars, neff, reg, regOk, regDone, probeVars>>

Notifications ==
    \/ RegisterNow
    \/ RequestPermissionStart
    \/ \E p \in {"init", "request"}, granted \in BOOLEAN : PermissionResult(p, granted)
    \/ \E p \in {"init", "request"}, t \in {NoTok} \cup PushTokens : setupPushToken(p, t)

InitProgram ==
    /\ store \in {NoSession} \cup [access : {1}, refresh : {NoTok, 1}]
    /\ storeUser \in {None, "user"}
    /\ (storeUser = None) <=> (store = NoSession)
    /\ auth = initialState
    /\ op = [s \in SessionSlots |-> IF s = "init" THEN [IdleOp EXCEPT !.pc = "start"] ELSE IdleOp]
    /\ req = [s \in Slots |-> IdleReq]
    /\ wl = watchlistInitialState
    /\ wop = [w \in WatchSlots |-> IdleWop]
    /\ weff = [deps |-> <<>>, timer |-> FALSE]
    /\ srv \in [Symbols -> {[fav |-> FALSE, alert |-> FALSE], [fav |-> TRUE, alert |-> FALSE]}]
    /\ notif = [expoPushToken |-> NoTok, isPermissionGranted |-> FALSE, isRegistered |-> FALSE]
    /\ nproc = [init |-> "start", request |-> "idle"]
    /\ neff = <<>>
    /\ reg = [r \in RegSlots |-> IdleReg]
    /\ regOk = {}
    /\ regDone = {}

Init ==
    /\ InitProgram
    /\ wa = watchlistInitialState
    /\ summary = NoSummary
    /\ loaded = NotLoaded
    /\ thrown = [s \in UiSlots |-> NoError]

\* The request pipeline under two concurrent callers, after initializeAuth.
Next ==
    \/ \E s \in UiSlots : ReqStart(s) \/ ReqReturn(s)
    \/ \E s \in UiSlots \cup {"init"} : Request(s)
    \/ InitRead \/ InitVerified

Spec == Init /\ [][Next]_vars

\* The session operations the navigator offers, with one concurrent caller.
NextSession ==
    \/ ReqStart("a") \/ ReqReturn("a")
    \/ \E s \in {"a", "init", "login", "logout"} : Request(s)
    \/ InitRead \/ InitVerified
    \/ LoginStart \/ LoginResponse \/ LoginUser
    \/ LogoutStart \/ LogoutFinish

SpecSession == Init /\ [][NextSession]_vars

\* The watchlist of a launched app; React runs a pending effect
\* before it handles the next event.
NextWatch ==
    \/ WatchAuthEffect
    \/ /\ ~WatchEffectPending
       /\ \/ Watchlist
          \/ Request("init")
          \/ InitRead \/ InitVerified

SpecWatch == Init /\ [][NextWatch]_vars

\* The alert status helpers over every cache of at most two items whose first
\* item has any alert preferences.
CachedItems ==
    {<<>>} \cup {<<item>> : item \in AlertItems}
           \cup {<<item, FavoriteItem(sym)>> : item \in AlertItems, sym \in Symbols}

InitAlerts ==
    /\ InitProgram
    /\ store = NoSession
    /\ \A sym \in Symbols : ~srv[sym].fav
    /\ wa \in {[watchlistInitialState EXCEPT !.items = items] : items \in CachedItems}
    /\ summary = NoSummary
    /\ loaded = NotLoaded
    /\ thrown = [s \in UiSlots |-> NoError]

NextAlerts ==
    \/ \E sym \in Symbols : GetAlertSummaryCall(sym)
    \/ \E upd \in SavedItems : UpdateWatchlistItem(upd)
    \/ \E syms \in {<<>>, <<"AAPL">>, <<"BTC">>, <<"AAPL", "BTC">>} : SetWatchlistItems(syms)

SpecAlerts == InitAlerts /\ [][NextAlerts]_vars

\* refreshToken of the context called by a component, after initializeAuth.
NextRefresh ==
    \/ \E s \in {"init", "refresh"} : Request(s)
    \/ InitRead \/ InitVerified
    \/ /\ op["init"].pc = "done"
       /\ RefreshStart \/ RefreshResponse \/ RefreshLogoutFinish \/ RefreshThrown

SpecRefresh == Init /\ [][NextRefresh]_vars

\* The errors the callers of two screens receive.
NextErrors == \E s \in UiSlots, o \in FetchOutcomes : RequestFails(s, o)

SpecErrors == Init /\ [][NextErrors]_vars

\* The operations that write a loading flag: initializeAuth, login and
\* register of the session; load, add, remove and initializeWatchlist of the
\* watchlist, with one screen.
NextLoading ==
    \/ WatchAuthEffect
    \/ /\ ~WatchEffectPending
       /\ \/ \E w \in {"w1", "wi"} : WatchServe(w) \/ WatchFinish(w)
          \/ LoadStart("w1")
          \/ \E sym \in Symbols : AddStart("w1", sym)
          \/ \E sym \in Symbols : RemoveFromWatchlist(sym)
          \/ InitializeWatchlist
          \/ \E s \in {"init", "login", "register"} : Request(s)
          \/ InitRead \/ InitVerified
          \/ LoginStart \/ LoginResponse \/ LoginUser
          \/ RegisterStart \/ RegisterResponse \/ RegisterLoggedIn \/ RegisterFinish

SpecLoading == Init /\ [][NextLoading]_vars

\* Reads of the token store beside the session operations.
NextStorage ==
    \/ \E io \in {"ok", "ioerror"} : GetTokens(io)
    \/ \E s \in {"init", "login", "logout"} : Request(s)
    \/ InitRead \/ InitVerified
    \/ LoginStart \/ LoginResponse \/ LoginUser
    \/ LogoutStart \/ LogoutFinish

SpecStorage == Init /\ [][NextStorage]_vars

\* FavoriteButton: the heart is pressed; while the watchlist is loading the
\* button is rendered disabled
FavoritePress(w, sym) ==
    /\ ~wl.isLoading
    /\ IF isInWatchlist(sym) THEN RemoveFromWatchlist(sym) ELSE AddStart(w, sym)

\* The watchlist driven from its screens only: hearts are pressed and the
\* list of WatchlistScreen is pulled to refresh.
NextFavorite ==
    \/ WatchAuthEffect
    \/ /\ ~WatchEffectPending
       /\ \/ \E w \in WatchSlots : WatchServe(w) \/ WatchFinish(w)
          \/ \E w \in {"w1", "w2"} : LoadStart(w)
          \/ \E w \in {"w1", "w2"}, sym \in Symbols : FavoritePress(w, sym)
          \/ InitializeWatchlist
          \/ Request("init")
          \/ InitRead \/ InitVerified

SpecFavorite == Init /\ [][NextFavorite]_vars

\* The alert preferences of watched items: one screen saves preferences
\* while the other reloads the list.
NextPrefs ==
    \/ WatchAuthEffect
    \/ /\ ~WatchEffectPending
       /\ \/ \E w \in WatchSlots : WatchServe(w) \/ WatchFinish(w)
          \/ \E i \in 1..Len(wl.items), alert \in BOOLEAN : UpdateStart("w1", i, alert)
          \/ LoadStart("w2")
          \/ InitializeWatchlist
          \/ Request("init")
          \/ InitRead \/ InitVerified

SpecPrefs == Init /\ [][NextPrefs]_vars

\* The registration coordinator of a launched app whose screens ask for the
\* permission and register by hand.  React runs a pending effect before it
\* handles the next event; with every caller of RegSlots in flight the next
\* event is the settling of one of the calls.
NextNotif ==
    \/ NotifEffect
    \/ /\ ~NotifEffectPending
       /\ \E r \in RegSlots : RegisterSettled(r)
    \/ /\ ~NotifEffectPending
       /\ FreeRegSlots # {}
       /\ \/ Notifications
          \/ Request("init")
          \/ InitRead \/ InitVerified

\* the favorites of the backend play no part in registration
InitNotif == Init /\ \A sym \in Symbols : ~srv[sym].fav

SpecNotif == InitNotif /\ [][NextNotif]_vars

\* The registration coordinator while the user signs in and out: the app
\* starts with nothing stored, so a session begins with login and ends with
\* logout; the push token is the one acquired at mount, no screen asks for
\* the permission again.
NextToggle ==
    \/ NotifEffect
    \/ /\ ~NotifEffectPending
       /\ \E r \in RegSlots : RegisterSettled(r)
    \/ /\ ~NotifEffectPending
       /\ FreeRegSlots # {}
       /\ \/ RegisterNow
          \/ \E granted \in BOOLEAN : PermissionResult("init", granted)
          \/ \E t \in {NoTok} \cup PushTokens : setupPushToken("init", t)
          \/ \E s \in {"login", "logout"} : Request(s)
          \/ InitRead
          \/ LoginStart \/ LoginResponse \/ LoginUser
          \/ LogoutStart \/ LogoutFinish

InitToggle == InitNotif /\ store = NoSession

SpecToggle == InitToggle /\ [][NextToggle]_vars

\* The watchlist of a launched app whose user logs out: one screen loads and
\* adds while initializeWatchlist and logout run.
NextSignOut ==
    \/ WatchAuthEffect
    \/ /\ ~WatchEffectPending
       /\ \/ \E w \in {"w1", "wi"} : WatchServe(w) \/ WatchFinish(w)
          \/ LoadStart("w1")
          \/ \E sym \in Symbols : AddStart("w1", sym)
          \/ InitializeWatchlist
          \/ \E s \in {"init", "logout"} : Request(s)
          \/ InitRead \/ InitVerified
          \/ LogoutStart \/ LogoutFinish

SpecSignOut == Init /\ [][NextSignOut]_vars

\* The auth screens: the user registers or logs in after the launch.
NextRegister ==
    \/ \E s \in {"init", "register", "login"} : Request(s)
    \/ InitRead \/ InitVerified
    \/ RegisterStart \/ RegisterResponse \/ RegisterLoggedIn \/ RegisterFinish
    \/ LoginStart \/ LoginResponse \/ LoginUser

SpecRegister == Init /\ [][NextRegister]_vars

(***************************************************************************)
(* Properties                                                              *)
(***************************************************************************)
Last(h) == h[Len(h)]

\* C1: two concurrent authenticated requests that both receive 401 trigger one
\* refresh call: at most one refresh is in flight at any time.
C1_OneRefreshInFlight ==
    Cardinality({s \in Slots : req[s].pc = "refreshing"}) <= 1

C3_AuthRequiredLogsOut ==
    \A s \in UiSlots :
        (req[s].pc = "done" /\ req[s].result = "AuthRequired") =>
            (~isAuthenticated /\ ~HasSession /\ storeUser = None)

\* C4: no call sends more than one refresh or more than one retry, and a call
\* whose final response is not 2xx ends with an error, never with a value.
C4_AtMostOnceAndNoSwallow ==
    \A s \in UiSlots \cup {"init"} :
        LET q == req[s] IN
        /\ q.nRefresh <= 1
        /\ q.nRetry <= 1
        /\ (q.pc = "done") =>
              /\ q.result # None
              /\ (q.result = "value") <=> (Last(q.hist) = "ok")

C4_Witness ==
    \E s \in UiSlots :
        /\ req[s].pc = "done"
        /\ req[s].nRefresh = 1
        /\ req[s].nRetry = 1
        /\ Last(req[s].hist) # "ok"
        /\ req[s].result = "AuthRequired"

\* C5: whenever no session operation is in flight, isAuthenticated is true
\* exactly when the credential store holds a session.
NoSessionOpInFlight == \A o \in SessionSlots : op[o].pc \in {"idle", "done"}

C5_StateAgreesWithStore ==
    NoSessionOpInFlight => (isAuthenticated <=> HasSession)

\* C6: the watchlist items list holds at most one item per symbol.
C6_UniqueSymbols ==
    \A i, j \in DOMAIN wl.items :
        (wl.items[i].symbol = wl.items[j].symbol) => (i = j)

\* an add call made by a signed-in user for a symbol that is already watched
DuplicateAdd(w, sym) ==
    /\ AddStart(w, sym)
    /\ isAuthenticated /\ getAccessToken # NoTok
    /\ isInWatchlist(sym)

RegistrationSent(r) == reg[r].pc = "idle" /\ reg'[r].pc = "sent"

\* C8: a device registration is sent to the backend only in a state where the
\* permission is granted, a push token is held and the session is
\* authenticated, whether the effect or a screen starts it.
C8_RegistersOnlyWithTriple ==
    [][\A r \in RegSlots :
         RegistrationSent(r) =>
            /\ notif.isPermissionGranted
            /\ notif.expoPushToken # NoTok
            /\ isAuthenticated]_vars

\* C9: at most one registration call is in flight at any time.
C9_OneRegistrationInFlight ==
    Cardinality({r \in RegSlots : reg[r].pc = "sent"}) <= 1

\* C10: once a registration of a push token has succeeded in the session, no
\* further registration call is sent for that token in that session.
C10_OncePerTokenAndSession ==
    [][\A r \in RegSlots : RegistrationSent(r) => reg'[r].token \notin regOk]_vars

\* C11: once a registration has succeeded, a run of the registration effect,
\* as a logout followed by a login causes, sends no registration call while
\* the push token is one whose registration has succeeded.
C11_ToggleDoesNotReRegister ==
    [][NotifEffect =>
         \A r \in RegSlots :
            RegistrationSent(r) => reg'[r].token \notin regDone]_vars

\* signed in again after a registration succeeded in an earlier session, the
\* effect has run and nothing is in flight
C11_Witness ==
    /\ isAuthenticated /\ ~auth.isLoading
    /\ ~NotifEffectPending
    /\ notif.expoPushToken \in regDone
    /\ regOk = {}
    /\ \A r \in RegSlots : reg[r].pc = "idle"

\* logout has run to its end and no session operation is in flight: nothing
\* is stored and the session state is that of LOGOUT
LoggedOut ==
    /\ ~auth.isLoading /\ ~isAuthenticated
    /\ auth.tokens = NoSession
    /\ ~HasSession /\ storeUser = None
    /\ \A o \in SessionSlots : op[o].pc \in {"idle", "done"}

\* C12: a refresh that was in flight when logout ran and whose response
\* arrives afterwards does not bring the session back: the credential store
\* still holds nothing.
C12_RefreshAfterLogoutStaysOut ==
    [][\A s \in UiSlots :
         (LoggedOut /\ ReqStoreAndRetry(s)) => (store' = NoSession)]_vars

\* C13: a device registration that was in flight when logout ran and succeeds
\* afterwards does not mark the registration as complete: isRegistered stays
\* false in the logged-out session.
C13_LateRegistrationNotMarked ==
    [][\A r \in RegSlots :
         (LoggedOut /\ ~notif.isRegistered /\ RegisterSettled(r))
            => ~notif'.isRegistered]_vars

\* C14: when logout completes, isAuthenticated is false and neither the
\* tokens nor the cached user are stored, whether the backend logout call
\* succeeded or failed.
C14_LogoutClearsAll ==
    [][LogoutFinish =>
         /\ req["logout"].result \in {"value", "Backend", "Network", "AuthRequired"}
         /\ auth'.user = None /\ auth'.tokens = NoSession
         /\ store' = NoSession /\ storeUser' = None]_vars

\* logged out while a registration sent by the signed-in session is still in
\* flight: the session was ended by logout
C14_Witness ==
    /\ LoggedOut
    /\ ~NotifEffectPending
    /\ \E r \in RegSlots : reg[r].pc = "sent"

\* C15: after logout the watchlist items list is empty, also when a load or
\* an add that started before the logout completes after it.
C15_EmptyAfterLogout ==
    (LoggedOut /\ ~WatchEffectPending) => (wl.items = <<>>)

\* C16: with no session stored after logout, an authenticated call ends with
\* 'Authentication required' without sending a network request.
C16_NoSessionFailsFast ==
    [][\A s \in UiSlots :
         (LoggedOut /\ ReqStart(s)) =>
            (req'[s].pc = "done" /\ req'[s].result = "AuthRequired")]_vars

\* a remove call made by a signed-in user for a symbol of the items list
WatchedRemove(sym) ==
    /\ RemoveFromWatchlist(sym)
    /\ isAuthenticated /\ getAccessToken # NoTok
    /\ isInWatchlist(sym)

\* C17: a remove of a watched symbol issues the remote delete, and the item
\* leaves the items list when the delete succeeds: after the call the symbol
\* is no longer watched or its delete is in flight.
C17_RemoveDeletes ==
    [][\A sym \in Symbols :
         WatchedRemove(sym) =>
            \/ ~(\E i \in DOMAIN wl'.items : wl'.items[i].symbol = sym)
            \/ \E w \in WatchSlots :
                  wop'[w].pc = "sent" /\ wop'[w].kind = "remove" /\ wop'[w].sym = sym]_vars

\* C18: a remove that fails, by the failure of its delete call or because
\* the symbol is not in the items list, records its error and leaves the
\* items list as it was.
C18_FailedRemoveKeepsItems ==
    [][\A sym \in Symbols :
         RemoveFromWatchlist(sym) =>
            /\ wl'.error # None
            /\ wl'.items = wl.items]_vars

\* a remove of a watched symbol has failed and the symbol is still watched
C18_Witness ==
    /\ wl.error = "Remove from watchlist requires symbol"
    /\ \E sym \in Symbols : isInWatchlist(sym)

\* C19: saving alert preferences writes the cached item only once the remote
\* update is confirmed: starting the save leaves the items alone, a failed
\* save leaves every item as it was, and a confirmed save replaces the item
\* of that symbol by the confirmed one and leaves every other item as it was.
C19_UpdateAfterConfirmation ==
    [][/\ \A w \in {"w1", "w2"}, i \in DOMAIN wl.items, alert \in BOOLEAN :
            UpdateStart(w, i, alert) => (wl'.items = wl.items)
       /\ \A w \in WatchSlots :
            (WatchFinish(w) /\ wop[w].kind = "update") =>
               IF wop[w].reply = "value"
               THEN /\ DOMAIN wl'.items = DOMAIN wl.items
                    /\ \A j \in DOMAIN wl.items :
                         wl'.items[j] = IF wl.items[j].symbol = wop[w].sym
                                        THEN Item(wop[w].sym, wop[w].alert)
                                        ELSE wl.items[j]
               ELSE wl'.items = wl.items]_vars

\* a confirmed save has put alert_enabled = true, which no load returns, into
\* the cache
C19_Witness ==
    /\ \E j \in DOMAIN wl.items :
         wl.items[j].alert_enabled /\ srv[wl.items[j].symbol].alert
    /\ \A w \in WatchSlots : wop[w].pc = "idle"

\* C20: a load returns every item with the alert configuration the server
\* holds, so that after a confirmed save a later load leaves the cached alert
\* flags equal to the server's.
C20_LoadKeepsAlertConfig ==
    [][\A w \in WatchSlots :
         (WatchServe(w) /\ wop[w].kind \in {"load", "init"} /\ wop'[w].reply = "value") =>
            \A j \in DOMAIN wop'[w].items :
               wop'[w].items[j].alert_enabled = srv[wop'[w].items[j].symbol].alert]_vars

\* C21: a register whose registration call and logins all succeed ends with
\* the tokens stored and the session authenticated with the registered user.
C21_RegisterCreatesSession ==
    [][(RegisterFinish /\ req["register"].result = "value") =>
          /\ store' # NoSession
          /\ auth'.tokens = store'
          /\ auth'.user = "user"
          /\ storeUser' = "user"]_vars

\* the last response of a call came from the backend and was an error
BackendRefused(q) == q.hist # <<>> /\ Last(q.hist) \in {"unauth", "err"}

\* C22: a login that fails, at the login call or at the profile fetch, leaves
\* the session unauthenticated and surfaces the message of the backend.
C22_LoginFailureSurfacesBackend ==
    [][((LoginResponse \/ LoginUser) /\ req["login"].result # "value") =>
          /\ auth'.user = None
          /\ BackendRefused(req["login"]) => (auth'.error = "Backend")]_vars

\* C23: when the registration has succeeded and a login of register fails,
\* the session stays unauthenticated, the error is recorded and rethrown, and
\* no second registration request is sent.
C23_RegisterLoginFailure ==
    [][/\ ((RegisterLoggedIn \/ RegisterFinish) /\ req["register"].result # "value") =>
             /\ auth'.user = None
             /\ auth'.error = req["register"].result
             /\ ~auth'.isLoading
             /\ req'["register"] = IdleReq /\ op'["register"] = IdleOp
       /\ (op["register"].pc \in {"login", "relogin"}) =>
             (op'["register"].pc # "register")]_vars

\* the registration succeeded and the login of register failed: the response
\* of the first login is cached as the user, no tokens are stored
C23_Witness ==
    /\ auth.error # None /\ ~auth.isLoading /\ ~isAuthenticated
    /\ storeUser = "authResponse" /\ store = NoSession
    /\ \A o \in SessionSlots : op[o].pc \in {"idle", "done"}

\* C24: initializeAuth with stored tokens and user first sets the session
\* authenticated with what is stored and sends the verification call; when
\* the verification fails the stored credentials are removed and the session
\* ends unauthenticated with loading finished.
C24_InitializeVerifies ==
    [][/\ (InitRead /\ HasSession /\ storeUser # None) =>
             /\ auth'.user = storeUser /\ auth'.tokens = store
             /\ auth'.isLoading
             /\ req'["init"].pc = "sent" /\ req'["init"].auth
       /\ (InitVerified /\ req["init"].result # "value") =>
             /\ store' = NoSession /\ storeUser' = None
             /\ auth'.user = None /\ auth'.tokens = NoSession
             /\ ~auth'.isLoading]_vars

\* the verification has failed after a registration was sent by the session
\* that initializeAuth had set authenticated
C24_Witness ==
    /\ op["init"].pc = "done"
    /\ LoggedOut
    /\ \E r \in RegSlots : reg[r].pc = "sent"

\* C25: when the registration effect runs with the permission granted, a push
\* token held, the session authenticated and no registration of that token
\* succeeded so far, a registration of the token is sent; this includes a new
\* token acquired after an earlier one was registered.
C25_RegistersWhenDue ==
    [][(/\ NotifEffect
        /\ isAuthenticated /\ notif.isPermissionGranted
        /\ notif.expoPushToken # NoTok
        /\ notif.expoPushToken \notin regDone) =>
          \E r \in RegSlots :
             reg'[r].pc = "sent" /\ reg'[r].token = notif.expoPushToken]_vars

\* C26: a registration call that fails is not sent again by itself: the call
\* is over, nothing is sent and no run of the effect is scheduled.  Calls are
\* sent only by a run of the effect, which a change of its dependencies
\* causes, or by the registerWithAPI of a screen, one call each.
C26_NoAutomaticRetry ==
    [][/\ \A r \in RegSlots :
            (RegisterSettled(r) /\ ~notif'.isRegistered) =>
               /\ reg'[r] = IdleReg
               /\ \A r2 \in RegSlots : ~RegistrationSent(r2)
               /\ NotifEffectPending' = NotifEffectPending
       /\ (\E r \in RegSlots : RegistrationSent(r)) => (NotifEffect \/ RegisterNow)
       /\ Cardinality({r \in RegSlots : RegistrationSent(r)}) <= 1
       /\ (NotifEffect /\ EffectRegisters) =>
             (Cardinality({r \in RegSlots : RegistrationSent(r)}) = 1)]_vars

\* signed in with a push token, not registered, nothing in flight and no run
\* of the effect due: the registration the effect sent has failed
C26_Witness ==
    /\ isAuthenticated /\ ~auth.isLoading
    /\ notif.expoPushToken # NoTok /\ ~notif.isRegistered
    /\ ~NotifEffectPending
    /\ \A r \in RegSlots : reg[r].pc = "idle"

\* C27: watchlist mutations are serialized per symbol: no two mutations of
\* the same symbol are in flight at the same time.
C27_MutationsSerialized ==
    \A w \in WatchSlots, w2 \in WatchSlots :
       (/\ w # w2
        /\ wop[w].pc \in {"sent", "replied"} /\ wop[w].kind \in {"add", "update"}
        /\ wop[w2].pc \in {"sent", "replied"} /\ wop[w2].kind \in {"add", "update"})
          => wop[w].sym # wop[w2].sym

\* the item getAlertSummary last answered for, when it is cached
SummarizedItem == getWatchlistItem(wa.items, summary.symbol)

\* C28: for a cached item getAlertSummary returns hasMarketAlerts true iff
\* alert_enabled and one of the overbought, oversold, neutral flags is set,
\* hasPriceAlerts true iff price_alert_enabled and one of the two prices is a
\* positive number, and hasAnyAlerts their disjunction.
C28_SummaryFlags ==
    (summary.calls >= 1 /\ SummarizedItem # <<>>) =>
       /\ summary.result # <<>>
       /\ LET item == SummarizedItem[1]
              s == summary.result[1]
              market == /\ item.alert_enabled = "true"
                        /\ \/ item.alert_on_overbought = "true"
                           \/ item.alert_on_oversold = "true"
                           \/ item.alert_on_neutral = "true"
              positive(p) == p.t = "number" /\ p.v >= 1
              price == /\ item.price_alert_enabled = "true"
                       /\ \/ positive(item.alert_price_above)
                          \/ positive(item.alert_price_below)
          IN /\ (s.hasMarketAlerts = "true") <=> market
             /\ (s.hasPriceAlerts = "true") <=> price
             /\ s.hasAnyAlerts = ToBool(market \/ price)

\* a summary of an item whose price alerts are on with a negative price above
\* and no price below, and whose market alerts are on
C28_Witness ==
    /\ summary.calls >= 1 /\ SummarizedItem # <<>>
    /\ SummarizedItem[1].price_alert_enabled = "true"
    /\ SummarizedItem[1].alert_price_above = Num(-1)
    /\ SummarizedItem[1].alert_price_below = Null
    /\ summary.result[1].hasMarketAlerts = "true"
    /\ summary.result[1].hasPriceAlerts = "false"
    /\ summary.result[1].hasAnyAlerts = "true"

C30_IoFailureIsNotNoSession ==
    [][\A io \in {"ok", "ioerror"} :
         (GetTokens(io) /\ loaded'.result = <<>>) =>
            (loaded'.io = "ok" /\ store = NoSession)]_vars

\* C31: the getCurrentUser call by which initializeAuth verifies the stored
\* session takes no part in refresh-and-retry: it sends no refresh call and
\* is not re-issued.
C31_VerifyExemptFromRefresh ==
    /\ req["init"].nRefresh = 0
    /\ req["init"].nRetry = 0

C33_ErrorClassesDistinct ==
    \A s \in UiSlots :
       LET o == thrown[s].outcome IN
       /\ (o.kind = "rejected") => (thrown[s].message = ConnectivityMessage)
       /\ (o.kind = "response") =>
             /\ thrown[s].message # ConnectivityMessage
             /\ thrown[s].message = IF o.detail # <<>> THEN o.detail
                                    ELSE <<"HTTP", o.status>>

\* C34: a successful add appends one item to the items list, the item of the
\* backend's response with the id the backend assigned, and leaves the items
\* that were cached before as they were.
C34_AddAppendsServerItem ==
    [][\A w \in WatchSlots :
         (WatchFinish(w) /\ wop[w].kind = "add" /\ wop[w].reply = "value") =>
            /\ Len(wl'.items) = Len(wl.items) + 1
            /\ SubSeq(wl'.items, 1, Len(wl.items)) = wl.items
            /\ Last(wl'.items) = wop[w].items[1]
            /\ Last(wl'.items).id = ServerId(wop[w].sym)
            /\ srv[Last(wl'.items).symbol].fav]_vars

\* BTC and then AAPL were added with success: a load lists AAPL first
C34_Witness ==
    /\ wl.items = <<Item("BTC", FALSE), Item("AAPL", FALSE)>>
    /\ \A w \in WatchSlots : wop[w].pc = "idle"

\* the call of s2 has refreshed with the refresh token rt, the backend has
\* answered with a new refresh token, and the tokens it stored are the
\* stored ones
StoredByRefresh(s2, rt) ==
    /\ req[s2].nRefresh = 1 /\ req[s2].rt = rt
    /\ req[s2].pc \in {"retrying", "done"}
    /\ req[s2].newRef # rt
    /\ store = [access |-> req[s2].newAcc, refresh |-> req[s2].newRef]

\* C35: of two calls that got 401 together and refresh with the same refresh
\* token, which the backend replaces on use, the one whose refresh is
\* rejected does not erase the tokens the refresh of the other has stored.
C35_FailedRefreshKeepsNewTokens ==
    [][\A s \in UiSlots, s2 \in UiSlots :
         (/\ s # s2
          /\ ReqClearAuth(s)
          /\ req[s].nRefresh = 1 /\ req[s].nRetry = 0
          /\ Last(req[s].hist) \in {"unauth", "err"}
          /\ StoredByRefresh(s2, req[s].rt)) => (store' = store)]_vars

\* C36: a login that fails leaves no session stored: when the profile fetch
\* after a successful backend login fails, the tokens stored during the
\* attempt are no longer stored once login has thrown.
C36_FailedLoginStoresNothing ==
    [][(LoginUser /\ req["login"].result # "value") =>
          (store' # op["login"].tok /\ store' = NoSession)]_vars

\* the session is not authenticated or no access token is stored
NotSignedIn == ~isAuthenticated \/ getAccessToken = NoTok

\* C37: an add or a remove called while the session is not authenticated or
\* no access token is stored sends no request, leaves the items list as it
\* was and records an error in the watchlist state.
C37_SignedOutMutationsAreLocal ==
    [][/\ \A w \in {"w1", "w2"}, sym \in Symbols :
            (AddStart(w, sym) /\ NotSignedIn) =>
               /\ wop' = wop /\ srv' = srv
               /\ wl'.items = wl.items
               /\ wl'.error \in {"Authentication required",
                                 "Authentication token not available"}
       /\ \A sym \in Symbols :
            (RemoveFromWatchlist(sym) /\ NotSignedIn) =>
               /\ wop' = wop /\ srv' = srv
               /\ wl'.items = wl.items
               /\ wl'.error \in {"Authentication required",
                                 "Authentication token not available"}]_vars

\* an add or a remove of a watched symbol was called by an authenticated
\* session whose tokens are no longer stored
C37_Witness ==
    /\ wl.error = "Authentication token not available"
    /\ isAuthenticated /\ getAccessToken = NoTok
    /\ wl.items # <<>>
    /\ \A w \in WatchSlots : wop[w].pc = "idle"

\* C38: no loading flag stays set: when no session operation is in flight
\* the session's isLoading is false, and when no watchlist operation is in
\* flight the watchlist's isLoading is false.
C38_NoStuckLoading ==
    /\ NoSessionOpInFlight => ~auth.isLoading
    /\ (\A w \in WatchSlots : wop[w].pc = "idle") => ~wl.isLoading

\* signed in, the watchlist initialized, and an add was refused as a
\* duplicate; nothing is in flight
C38_Witness ==
    /\ NoSessionOpInFlight /\ \A w \in WatchSlots : wop[w].pc = "idle"
    /\ isAuthenticated
    /\ wl.error = "Item already in watchlist"
    /\ ~weff.timer /\ ~WatchEffectPending

====
